---- MODULE Spec2Model ----
(***************************************************************************)
(* fastLM engine (src/src/main.cpp): the matrix kernels (matmul,           *)
(* transpose, softmax, attention), the TransformerBlock and the driver     *)
(* main() that loads models/model.bin and runs one forward pass.           *)
(*                                                                         *)
(* Numbers.  A C++ float is written as a record [w, u] standing for the    *)
(* value w + u / 10^6 with 0 <= u < 10^6 (a whole part and a millionths    *)
(* part, so the value range reaches beyond the -1e9 of softmax and the     *)
(* resolution is finer than the 1e-5 the specification states).  Every     *)
(* arithmetic result is rounded down to that grid, as the hardware rounds  *)
(* to the float grid.  The record with u = -1 is NaN.                      *)
(*                                                                         *)
(* A 32-bit word of the model file is written as the signed integer with   *)
(* that bit pattern when it is read as an int, and as the whole number n   *)
(* when it is read as the float n.0.                                       *)
(***************************************************************************)
EXTENDS Integers, Sequences, FiniteSets, TLC

VARIABLES
    \* ---- the driver, main() ----
    pc,          \* position of main(): see the actions below
    file,        \* models/model.bin: [exists, words], words a sequence of 32-bit words
    pos,         \* read position of the stream f, in words
    streamOpen,  \* TRUE between fopen(f) and fclose(f)
    magic,       \* main's local `magic`
    layers,      \* main's local `layers`
    d_model,     \* main's local `d_model`
    layer1,      \* main's local `layer1`: [W_q, W_k, W_v, W_out], or NoBlock
    loaded,      \* how many loadMatrix calls of the constructor have returned
    readLog,     \* every fread so far: <<destination, row, position, items asked, items read>>
    forwardCalled, \* TRUE once main() has called layer1.forward
    output,      \* main's local `output`, or NoMatrix
    stderr,      \* what was written to std::cerr
    exitStatus,  \* the process's exit status, or Running
    \* ---- one call of a kernel ----
    call,        \* which kernel is called, and "done" appended once it has returned
    X, Y, Z,     \* the arguments (A, B of matmul; m; Q, K, V; input)
    block,       \* the TransformerBlock forward is called on, or NoBlock
    result,      \* what the call produced: [status, m]
    max_vals     \* softmax: the max_val of each row

vars == <<pc, file, pos, streamOpen, magic, layers, d_model, layer1, loaded,
          readLog, forwardCalled, output, stderr, exitStatus, call, X, Y, Z, block, result,
          max_vals>>

mainVars == <<pc, file, pos, streamOpen, magic, layers, d_model, layer1, loaded,
              readLog, forwardCalled, output, stderr, exitStatus>>

kernelVars == <<call, X, Y, Z, block, result, max_vals>>

-----------------------------------------------------------------------------
(* float arithmetic *)

Micro == 1000 * 1000

Float(w, u) == [w |-> w, u |-> u]

Whole(n) == [w |-> n, u |-> 0]

NaN == [w |-> 0, u |-> -1]

IsNaN(a) == a.u < 0

Norm(w, u) == [w |-> w + (u \div Micro), u |-> u % Micro]

\* a + b
FAdd(a, b) ==
    IF IsNaN(a) \/ IsNaN(b) THEN NaN ELSE Norm(a.w + b.w, a.u + b.u)

\* a - b
FSub(a, b) ==
    IF IsNaN(a) \/ IsNaN(b) THEN NaN ELSE Norm(a.w - b.w, a.u - b.u)

\* a > b (false when either is NaN)
FGt(a, b) ==
    /\ ~IsNaN(a)
    /\ ~IsNaN(b)
    /\ \/ a.w > b.w
       \/ a.w = b.w /\ a.u > b.u

\* a >= b (false when either is NaN)
FGe(a, b) == FGt(a, b) \/ (~IsNaN(a) /\ a = b)

\* the whole number w times u millionths
MulWU(w, u) ==
    LET uh == u \div 1000
        ul == u % 1000
        p  == w * uh
    IN  Norm(p \div 1000, (p % 1000) * 1000 + w * ul)

\* u1 millionths times u2 millionths, in millionths
MulUU(u1, u2) ==
    LET ah == u1 \div 1000
        al == u1 % 1000
        bh == u2 \div 1000
        bl == u2 % 1000
    IN  ah * bh + ((ah * bl + al * bh + ((al * bl) \div 1000)) \div 1000)

\* a * b
FMul(a, b) ==
    IF IsNaN(a) \/ IsNaN(b) THEN NaN
    ELSE FAdd(FAdd(Whole(a.w * b.w), MulWU(a.w, b.u)),
              FAdd(MulWU(b.w, a.u), Float(0, MulUU(a.u, b.u))))

RECURSIVE FracDigits(_, _, _)
\* the first 2k decimal digits of r / bm, for 0 <= r < bm
FracDigits(r, bm, k) ==
    IF k = 0 THEN 0
    ELSE LET d  == (r * 100) \div bm
             r2 == (r * 100) % bm
         IN  d * (IF k = 3 THEN 10000 ELSE IF k = 2 THEN 100 ELSE 1)
               + FracDigits(r2, bm, k - 1)

\* a / b for b >= 0; 0 / 0 is NaN (a nonzero a is never divided by 0 here:
\* softmax divides by a sum of non-negative terms, attention by sqrt(d_k) >= 1)
FDiv(a, b) ==
    IF IsNaN(a) \/ IsNaN(b) THEN NaN
    ELSE LET am == a.w * Micro + a.u
             bm == b.w * Micro + b.u
         IN  IF bm = 0 THEN NaN
             ELSE [w |-> am \div bm, u |-> FracDigits(am % bm, bm, 3)]

\* exp(-n) in millionths for n = 0, 1, ..., 13; below that it is under a millionth
ExpTable ==
    <<1000000, 367879, 135335, 49787, 18315, 6737, 2478, 911, 335, 123, 45,
      16, 6, 2>>

RECURSIVE ExpSeries(_, _, _)
\* term + term*f/k + term*f^2/(k(k+1)) + ... in millionths, f = u millionths
ExpSeries(term, u, k) ==
    IF term = 0 THEN 0
    ELSE term + ExpSeries(MulUU(term, u) \div k, u, k + 1)

\* std::exp(d) for d <= 0; a float exp is 0 below about -104
FExp(d) ==
    IF IsNaN(d) THEN NaN
    ELSE IF -d.w > Len(ExpTable) - 1 THEN Whole(0)
    ELSE Norm(0, MulUU(ExpTable[1 - d.w], ExpSeries(Micro, d.u, 1)))

\* std::sqrt((float) n) in millionths, for the column counts in reach
SqrtTable == <<1000000, 1414213, 1732050, 2000000, 2236067, 2449489>>

FSqrt(n) == Norm(0, SqrtTable[n])

-----------------------------------------------------------------------------
(* matrices: typedef std::vector<std::vector<float>> Matrix, rows from 1 *)

Rows(m) == Len(m)

Cols(m) == Len(m[1])

Shape(m) == <<Rows(m), Cols(m)>>

\* Matrix(rows, std::vector<float>(cols, fill))
Alloc(rows, cols, fill) == [i \in 1..rows |-> [j \in 1..cols |-> fill]]

NoMatrix == <<>>

\* what a call ends in: it returns a matrix, or it ends the process
Returned(m) == [status |-> "returned", m |-> m]

DimensionMismatch == [status |-> "DimensionMismatch", m |-> NoMatrix]

-----------------------------------------------------------------------------
(* MATH OPERATIONS *)

RECURSIVE Dot(_, _, _, _, _)
\* C[i][j] after the k-loop has run for columns 1..k of A: starts at 0.0f and
\* adds A[i][k] * B[k][j] in the order of k
Dot(A, B, i, j, k) ==
    IF k = 0 THEN Whole(0)
    ELSE FAdd(Dot(A, B, i, j, k - 1), FMul(A[i][k], B[k][j]))

\* matmul with the shape test written `colsA > rowsB`: a B with more rows than
\* A has columns passes, and the loops use only the first colsA rows of B
matmulOneSidedCheck(A, B) ==
    LET rowsA == Rows(A)
        colsA == Cols(A)
        rowsB == Rows(B)
        colsB == Cols(B)
    IN  IF colsA > rowsB THEN DimensionMismatch
        ELSE Returned([i \in 1..rowsA |->
                         [j \in 1..colsB |-> Dot(A, B, i, j, colsA)]])

\* Matrix matmul(const Matrix& A, const Matrix& B)
matmul(A, B) ==
    LET rowsA == Rows(A)
        colsA == Cols(A)
        rowsB == Rows(B)
        colsB == Cols(B)
    IN  IF colsA # rowsB THEN DimensionMismatch
        ELSE Returned([i \in 1..rowsA |->
                         [j \in 1..colsB |-> Dot(A, B, i, j, colsA)]])

\* transpose with the inner loop written `j < cols - 1`: the last row of the
\* result keeps the 0.0f it was allocated with
transposeOffByOne(m) ==
    LET rows == Rows(m)
        cols == Cols(m)
    IN  [j \in 1..cols |->
            [i \in 1..rows |-> IF j < cols THEN m[i][j] ELSE Whole(0)]]

\* Matrix transpose(const Matrix& m)
transpose(m) ==
    LET rows == Rows(m)
        cols == Cols(m)
    IN  [j \in 1..cols |-> [i \in 1..rows |-> m[i][j]]]

\* float max_val = -1e9
MaxValInit == -1000000000

RECURSIVE MaxVal(_, _)
\* max_val after `for (float val : m[i]) if (val > max_val) max_val = val`
\* has run over the first k elements of the row
MaxVal(row, k) ==
    IF k = 0 THEN Whole(MaxValInit)
    ELSE LET max_val == MaxVal(row, k - 1)
         IN  IF FGt(row[k], max_val) THEN row[k] ELSE max_val

RECURSIVE SumExp(_, _)
\* sum_exp after the first k elements of the exponentiated row were added
SumExp(row, k) ==
    IF k = 0 THEN Whole(0) ELSE FAdd(SumExp(row, k - 1), row[k])

\* one iteration of softmax's loop over the rows
softmaxRow(row) ==
    LET cols    == Len(row)
        max_val == MaxVal(row, cols)
        exps    == [j \in 1..cols |-> FExp(FSub(row[j], max_val))]
        sum_exp == SumExp(exps, cols)
    IN  [j \in 1..cols |-> FDiv(exps[j], sum_exp)]

\* void softmax(Matrix& m): the value of m when it returns
softmax(m) == [i \in 1..Rows(m) |-> softmaxRow(m[i])]

\* scores[i][j] /= scale, for every cell
Scaled(scores, scale) ==
    [i \in 1..Rows(scores) |->
        [j \in 1..Cols(scores) |-> FDiv(scores[i][j], scale)]]

\* attention with scores = matmul(Q, K), the transpose of K forgotten
attentionNoTranspose(Q, K, V) ==
    LET scores == matmul(Q, K)
        d_k    == Cols(Q)
        scale  == FSqrt(d_k)
    IN  IF scores.status # "returned" THEN scores
        ELSE matmul(softmax(Scaled(scores.m, scale)), V)

\* Matrix attention(const Matrix& Q, const Matrix& K, const Matrix& V)
attention(Q, K, V) ==
    LET K_T    == transpose(K)
        scores == matmul(Q, K_T)
        d_k    == Cols(Q)
        scale  == FSqrt(d_k)
    IN  IF scores.status # "returned" THEN scores
        ELSE matmul(softmax(Scaled(scores.m, scale)), V)

-----------------------------------------------------------------------------
(* struct TransformerBlock *)

NoBlock == [W_q |-> NoMatrix, W_k |-> NoMatrix, W_v |-> NoMatrix,
            W_out |-> NoMatrix]

\* forward with the operands of the three projections swapped: W x input
forwardSwapped(W, input) ==
    LET Q == matmul(W.W_q, input)
        K == matmul(W.W_k, input)
        V == matmul(W.W_v, input)
        attn_out == attention(Q.m, K.m, V.m)
    IN  IF Q.status # "returned" THEN Q
        ELSE IF K.status # "returned" THEN K
        ELSE IF V.status # "returned" THEN V
        ELSE IF attn_out.status # "returned" THEN attn_out
        ELSE matmul(attn_out.m, W.W_out)

\* Matrix TransformerBlock::forward(const Matrix& input)
forward(W, input) ==
    LET Q == matmul(input, W.W_q)
        K == matmul(input, W.W_k)
        V == matmul(input, W.W_v)
        attn_out == attention(Q.m, K.m, V.m)
    IN  IF Q.status # "returned" THEN Q
        ELSE IF K.status # "returned" THEN K
        ELSE IF V.status # "returned" THEN V
        ELSE IF attn_out.status # "returned" THEN attn_out
        ELSE matmul(attn_out.m, W.W_out)

-----------------------------------------------------------------------------
(* The kernels, each called once on arguments drawn from bounded sets *)

\* largest row count and column count of an argument
MaxDim == 2

\* the cell values of an argument follow one of these patterns
Patterns == {1, 2}

\* cell (i, j) of an argument of pattern p: 0.5 everywhere (the value main()
\* fills its input with), or whole numbers of both signs
Cell(p, i, j) ==
    IF p = 1 THEN Float(0, 500000) ELSE Whole(((i + 2 * j) % 3) - 1)

Mat(rows, cols, p) == [i \in 1..rows |-> [j \in 1..cols |-> Cell(p, i, j)]]

\* the non-empty rectangular matrices the kernels are called on
Mats == {Mat(r, c, p) : r \in 1..MaxDim, c \in 1..MaxDim, p \in Patterns}

\* a block of d_model x d_model weights
Block(d, p) == [W_q   |-> Mat(d, d, p),
                W_k   |-> transpose(Mat(d, d, p)),
                W_v   |-> Mat(d, d, 3 - p),
                W_out |-> Mat(d, d, p)]

Blocks == {Block(d, p) : d \in 1..MaxDim, p \in Patterns}

\* the values of a softmax input: below, at and above the -1e9 max_val starts
\* from, and small ones
SoftmaxValues == {-2000000000, -1000000000, -1, 0, 2}

\* largest row length of a softmax input
MaxSoftmaxCols == 2

\* a softmax input has one row or two
SoftmaxRowCounts == {1, 2}

SoftmaxMats ==
    UNION {[1..n -> [1..c -> {Whole(v) : v \in SoftmaxValues}]] :
             n \in SoftmaxRowCounts, c \in 1..MaxSoftmaxCols}

-----------------------------------------------------------------------------
(* main() is not running while a kernel is called on its own *)

\* fopen finds no models/model.bin
NoFile == [exists |-> FALSE, words |-> <<>>]

Running == -1

NoMain ==
    /\ pc = "none"
    /\ file = NoFile
    /\ pos = 0
    /\ streamOpen = FALSE
    /\ magic = 0
    /\ layers = 0
    /\ d_model = 0
    /\ layer1 = NoBlock
    /\ loaded = 0
    /\ readLog = <<>>
    /\ forwardCalled = FALSE
    /\ output = NoMatrix
    /\ stderr = <<>>
    /\ exitStatus = Running

NoResult == [status |-> "none", m |-> NoMatrix]

InitKernel ==
    /\ NoMain
    /\ result = NoResult
    /\ max_vals = <<>>
    /\ \/ /\ call = "matmul"
          /\ X \in Mats
          /\ Y \in Mats
          /\ Z = NoMatrix
          /\ block = NoBlock
       \/ /\ call = "transpose"
          /\ X \in Mats
          /\ Y = NoMatrix
          /\ Z = NoMatrix
          /\ block = NoBlock
       \/ /\ call = "softmax"
          /\ X \in SoftmaxMats
          /\ Y = NoMatrix
          /\ Z = NoMatrix
          /\ block = NoBlock
       \/ /\ call = "attention"
          /\ X \in Mats
          /\ Y \in Mats
          /\ Z \in Mats
          /\ block = NoBlock
       \/ /\ call = "forward"
          /\ X \in Mats
          /\ Y = NoMatrix
          /\ Z = NoMatrix
          /\ block \in Blocks

\* C = matmul(A, B), with A = X and B = Y
Matmul ==
    /\ call = "matmul"
    /\ call' = "matmul done"
    /\ result' = matmul(X, Y)
    /\ UNCHANGED <<X, Y, Z, block, max_vals>>
    /\ UNCHANGED mainVars

\* result = transpose(m), with m = X
Transpose ==
    /\ call = "transpose"
    /\ call' = "transpose done"
    /\ result' = Returned(transpose(X))
    /\ UNCHANGED <<X, Y, Z, block, max_vals>>
    /\ UNCHANGED mainVars

\* Y = transpose(result), the transpose of what Transpose returned
TransposeBack ==
    /\ call = "transpose done"
    /\ call' = "transpose twice"
    /\ Y' = transpose(result.m)
    /\ UNCHANGED <<X, Z, block, result, max_vals>>
    /\ UNCHANGED mainVars

\* softmax(m), with m = X, which it overwrites
Softmax ==
    /\ call = "softmax"
    /\ call' = "softmax done"
    /\ X' = softmax(X)
    /\ max_vals' = [i \in 1..Rows(X) |-> MaxVal(X[i], Len(X[i]))]
    /\ result' = Returned(NoMatrix)
    /\ UNCHANGED <<Y, Z, block>>
    /\ UNCHANGED mainVars

\* result = attention(Q, K, V), with Q = X, K = Y, V = Z
Attention ==
    /\ call = "attention"
    /\ call' = "attention done"
    /\ result' = attention(X, Y, Z)
    /\ UNCHANGED <<X, Y, Z, block, max_vals>>
    /\ UNCHANGED mainVars

\* result = block.forward(input), with input = X
Forward ==
    /\ call = "forward"
    /\ call' = "forward done"
    /\ result' = forward(block, X)
    /\ UNCHANGED <<X, Y, Z, block, max_vals>>
    /\ UNCHANGED mainVars

NextKernel ==
    \/ Matmul
    \/ Transpose
    \/ TransposeBack
    \/ Softmax
    \/ Attention
    \/ Forward

SpecKernel == InitKernel /\ [][NextKernel]_vars

-----------------------------------------------------------------------------
(* models/model.bin *)

\* 0xFEEDBEEF, as the signed integer with that bit pattern
Magic == -17973521

\* the magic words a file starts with: 0xFEEDBEEF and 0xDEADBEEF
MagicValues == {Magic, -559038737}

LayerValues == {1, 2}

\* largest d_model a file declares
MaxDModel == 2

\* the d_model words a file holds: negative, zero and positive
DModelValues == -1..MaxDModel

\* the word k of the tensor data, read as a float, is the float k / 8
FloatOfWord(k) == Norm(0, k * 125000)

\* the tensor data of a complete file: 4 * d * d words, all different
TensorData(d, first) ==
    IF d < 1 THEN <<>> ELSE [k \in 1..(4 * d * d) |-> first + k - 1]

\* a file with its header and all its tensor data, and what follows them
CompleteFile(m, l, d, first, tail) == <<m, l, d>> \o TensorData(d, first) \o tail

CompleteFiles ==
    {CompleteFile(m, l, d, first, tail) :
        m \in MagicValues, l \in LayerValues, d \in DModelValues,
        first \in {0, 1}, tail \in {<<>>, <<7>>}}

\* the complete files and every file cut short, at any word
Files == UNION {{SubSeq(f, 1, n) : n \in 0..Len(f)} : f \in CompleteFiles}

-----------------------------------------------------------------------------
(* fread and loadMatrix *)

Min(a, b) == IF a < b THEN a ELSE b

\* the number of items fread(ptr, 4, n, f) reads at position p: the n asked
\* for, or those left in the file
Fread(words, p, n) == Min(n, Len(words) - p)

RECURSIVE loadRows(_, _, _, _)
\* loadMatrix's loop from row i on: the matrix, the stream position and the
\* freads made.  A row's fread overwrites the first `got` cells of the row and
\* leaves the others as they were
loadRows(words, p, m, i) ==
    IF i > Rows(m) THEN [m |-> m, pos |-> p, reads |-> <<>>]
    ELSE LET cols == Cols(m)
             got  == Fread(words, p, cols)
             row  == [j \in 1..cols |->
                        IF j <= got THEN FloatOfWord(words[p + j]) ELSE m[i][j]]
             rest == loadRows(words, p + got, [m EXCEPT ![i] = row], i + 1)
         IN  [rest EXCEPT !.reads =
                 <<[row |-> i, at |-> p, asked |-> cols, got |-> got]>> \o @]

\* loadMatrix filling the matrix column by column
loadMatrixColumnMajor(words, p, m) ==
    LET r == loadRows(words, p, m, 1) IN [r EXCEPT !.m = transpose(@)]

\* void loadMatrix(FILE* f, Matrix& m)
loadMatrix(words, p, m) == loadRows(words, p, m, 1)

-----------------------------------------------------------------------------
(* int main() *)

TensorNames == <<"W_q", "W_k", "W_v", "W_out">>

\* exit status of a process ended by std::terminate (SIGABRT) or by a fault
Aborted == 128 + 6

InitMain ==
    /\ pc = "open"
    /\ file \in {[exists |-> TRUE, words |-> f] : f \in Files} \cup {NoFile}
    /\ pos = 0
    /\ streamOpen = FALSE
    /\ magic = 0
    /\ layers = 0
    /\ d_model = 0
    /\ layer1 = NoBlock
    /\ loaded = 0
    /\ readLog = <<>>
    /\ forwardCalled = FALSE
    /\ output = NoMatrix
    /\ stderr = <<>>
    /\ exitStatus = Running
    /\ call = "none"
    /\ X = NoMatrix
    /\ Y = NoMatrix
    /\ Z = NoMatrix
    /\ block = NoBlock
    /\ result = NoResult
    /\ max_vals = <<>>

\* 1. Open the Model File
OpenModelFile ==
    /\ pc = "open"
    /\ IF ~file.exists
       THEN /\ stderr' = Append(stderr, "Could not open models/model.bin")
            /\ exitStatus' = 1
            /\ pc' = "exited"
            /\ UNCHANGED streamOpen
       ELSE /\ streamOpen' = TRUE
            /\ pc' = "header"
            /\ UNCHANGED <<stderr, exitStatus>>
    /\ UNCHANGED <<file, pos, magic, layers, d_model, layer1, loaded, readLog,
                   forwardCalled, output>>
    /\ UNCHANGED kernelVars

\* Read Header without the `return 1` after the error message
ReadHeaderNoReturn ==
    /\ pc = "header"
    /\ LET got == Fread(file.words, pos, 1)
       IN  /\ magic' \in (IF got = 1 THEN {file.words[pos + 1]} ELSE MagicValues)
           /\ pos' = pos + got
           /\ readLog' = Append(readLog,
                 [into |-> "magic", row |-> 0, at |-> pos, asked |-> 1,
                  got |-> got])
    /\ IF magic' # Magic
       THEN stderr' = Append(stderr, "Invalid file format!")
       ELSE UNCHANGED stderr
    /\ pc' = "dimensions"
    /\ UNCHANGED <<file, streamOpen, layers, d_model, layer1, loaded,
                   forwardCalled, output, exitStatus>>
    /\ UNCHANGED kernelVars

\* 2. Read Header.  `magic` is not initialised: when the file holds no word,
\* fread leaves it with any value
ReadHeader ==
    /\ pc = "header"
    /\ LET got == Fread(file.words, pos, 1)
       IN  /\ magic' \in (IF got = 1 THEN {file.words[pos + 1]} ELSE MagicValues)
           /\ pos' = pos + got
           /\ readLog' = Append(readLog,
                 [into |-> "magic", row |-> 0, at |-> pos, asked |-> 1,
                  got |-> got])
    /\ IF magic' # Magic
       THEN /\ stderr' = Append(stderr, "Invalid file format!")
            /\ exitStatus' = 1
            /\ pc' = "exited"
       ELSE /\ pc' = "dimensions"
            /\ UNCHANGED <<stderr, exitStatus>>
    /\ UNCHANGED <<file, streamOpen, layers, d_model, layer1, loaded,
                   forwardCalled, output>>
    /\ UNCHANGED kernelVars

\* 3. Read Dimensions.  `layers` and `d_model` are not initialised either
ReadDimensions ==
    /\ pc = "dimensions"
    /\ LET got1 == Fread(file.words, pos, 1)
           got2 == Fread(file.words, pos + got1, 1)
       IN  /\ layers' \in (IF got1 = 1 THEN {file.words[pos + 1]} ELSE LayerValues)
           /\ d_model' \in (IF got2 = 1 THEN {file.words[pos + got1 + 1]}
                                         ELSE DModelValues)
           /\ pos' = pos + got1 + got2
           /\ readLog' = readLog \o
                 <<[into |-> "layers", row |-> 0, at |-> pos, asked |-> 1,
                    got |-> got1],
                   [into |-> "d_model", row |-> 0, at |-> pos + got1,
                    asked |-> 1, got |-> got2]>>
    /\ pc' = "construct"
    /\ UNCHANGED <<file, streamOpen, magic, layer1, loaded, forwardCalled,
                   output, stderr, exitStatus>>
    /\ UNCHANGED kernelVars

\* 4. Load the Transformer Block: the constructor's four allocations.  A
\* negative d_model makes std::vector throw, which nothing catches.  With
\* d_model = 0 the matrices are empty
ConstructBlock ==
    /\ pc = "construct"
    /\ IF d_model < 0
       THEN /\ stderr' = Append(stderr, "terminate called")
            /\ exitStatus' = Aborted
            /\ pc' = "exited"
            /\ UNCHANGED layer1
       ELSE /\ layer1' = [W_q   |-> Alloc(d_model, d_model, Whole(0)),
                          W_k   |-> Alloc(d_model, d_model, Whole(0)),
                          W_v   |-> Alloc(d_model, d_model, Whole(0)),
                          W_out |-> Alloc(d_model, d_model, Whole(0))]
            /\ pc' = "load"
            /\ UNCHANGED <<stderr, exitStatus>>
    /\ UNCHANGED <<file, pos, streamOpen, magic, layers, d_model, loaded,
                   readLog, forwardCalled, output>>
    /\ UNCHANGED kernelVars

\* the constructor's next loadMatrix(f, W).  On an empty matrix m[0] does not
\* exist and reading its size is undefined: the process faults, or the loop
\* over no rows reads nothing
LoadNextMatrix ==
    /\ pc = "load"
    /\ LET name == TensorNames[loaded + 1]
       IN  IF d_model = 0
           THEN \/ /\ exitStatus' = Aborted
                   /\ pc' = "exited"
                   /\ UNCHANGED <<loaded, layer1, pos, readLog>>
                \/ /\ loaded' = loaded + 1
                   /\ pc' = IF loaded' = Len(TensorNames) THEN "close"
                                                          ELSE "load"
                   /\ UNCHANGED <<exitStatus, layer1, pos, readLog>>
           ELSE LET r == loadMatrix(file.words, pos, layer1[name])
                IN  /\ layer1' = [layer1 EXCEPT ![name] = r.m]
                    /\ pos' = r.pos
                    /\ readLog' = readLog \o
                          [k \in 1..Len(r.reads) |->
                              [into |-> name, row |-> r.reads[k].row,
                               at |-> r.reads[k].at,
                               asked |-> r.reads[k].asked,
                               got |-> r.reads[k].got]]
                    /\ loaded' = loaded + 1
                    /\ pc' = IF loaded' = Len(TensorNames) THEN "close"
                                                           ELSE "load"
                    /\ UNCHANGED exitStatus
    /\ UNCHANGED <<file, streamOpen, magic, layers, d_model, forwardCalled,
                   output, stderr>>
    /\ UNCHANGED kernelVars

\* Close file (we are done reading)
CloseFile ==
    /\ pc = "close"
    /\ streamOpen' = FALSE
    /\ pc' = "inference"
    /\ UNCHANGED <<file, pos, magic, layers, d_model, layer1, loaded, readLog,
                   forwardCalled, output, stderr, exitStatus>>
    /\ UNCHANGED kernelVars

\* 5. Run Inference: a 3 x d_model input of 0.5f, then layer1.forward(input).
\* With d_model = 0 matmul reads B[0] of an empty B, which is undefined: the
\* process faults, or goes on with a matrix of no columns
RunInference ==
    /\ pc = "inference"
    /\ forwardCalled' = TRUE
    /\ IF d_model = 0
       THEN \/ /\ exitStatus' = Aborted
               /\ pc' = "exited"
               /\ UNCHANGED <<output, stderr>>
            \/ /\ output' = Alloc(3, 0, Whole(0))
               /\ pc' = "report"
               /\ UNCHANGED <<exitStatus, stderr>>
       ELSE LET input == Alloc(3, d_model, Float(0, 500000))
                r     == forward(layer1, input)
            IN  IF r.status = "returned"
                THEN /\ output' = r.m
                     /\ pc' = "report"
                     /\ UNCHANGED <<exitStatus, stderr>>
                ELSE /\ stderr' = Append(stderr, "Dimension mismatch!")
                     /\ exitStatus' = 1
                     /\ pc' = "exited"
                     /\ UNCHANGED output
    /\ UNCHANGED <<file, pos, streamOpen, magic, layers, d_model, layer1,
                   loaded, readLog>>
    /\ UNCHANGED kernelVars

\* printMatrix("Final Output", output); ...; return 0
Report ==
    /\ pc = "report"
    /\ exitStatus' = 0
    /\ pc' = "exited"
    /\ UNCHANGED <<file, pos, streamOpen, magic, layers, d_model, layer1,
                   loaded, readLog, forwardCalled, output, stderr>>
    /\ UNCHANGED kernelVars

NextMain ==
    \/ OpenModelFile
    \/ ReadHeader
    \/ ReadDimensions
    \/ ConstructBlock
    \/ LoadNextMatrix
    \/ CloseFile
    \/ RunInference
    \/ Report

SpecMain == InitMain /\ [][NextMain]_vars

-----------------------------------------------------------------------------
(* Properties of main() *)

\* the file exists and its first word is not 0xFEEDBEEF
BadMagicFile ==
    /\ file.exists
    /\ Len(file.words) >= 1
    /\ file.words[1] # Magic

\* the file exists and holds the magic word, a d_model >= 1 and all 4 * d_model^2
\* floats of the tensor data
CompleteModelFile ==
    /\ file.exists
    /\ Len(file.words) >= 3
    /\ file.words[1] = Magic
    /\ file.words[3] >= 1
    /\ Len(file.words) >= 3 + 4 * file.words[3] * file.words[3]

\* the file exists and holds the magic word and a d_model >= 1, and its tensor
\* data ends before 4 * d_model^2 floats
TruncatedModelFile ==
    /\ file.exists
    /\ Len(file.words) >= 3
    /\ file.words[1] = Magic
    /\ file.words[3] >= 1
    /\ Len(file.words) < 3 + 4 * file.words[3] * file.words[3]

\* C1: when the first word of the file is not 0xFEEDBEEF, main() ends with the
\* "Invalid file format!" message and exit status 1 right after reading the magic
\* word: the only fread ever made is the one of the magic word (none of the layer
\* count, of d_model or of a tensor), no TransformerBlock is constructed and
\* forward is never called.
C1_InvalidFormat ==
    BadMagicFile =>
        /\ pc \in {"open", "header", "exited"}
        /\ pc = "exited" =>
              /\ exitStatus = 1
              /\ stderr = <<"Invalid file format!">>
        /\ \A k \in 1..Len(readLog) : readLog[k].into = "magic"
        /\ Len(readLog) <= 1
        /\ layer1 = NoBlock
        /\ loaded = 0
        /\ ~forwardCalled
        /\ output = NoMatrix

\* C1's case: a file with a wrong magic word was opened and read, and main() ended
C1_Witness ==
    /\ BadMagicFile
    /\ pc = "exited"
    /\ Len(readLog) = 1

\* C2: whenever the file was opened, the stream is closed once main() is at the
\* inference or has ended.
C2_StreamClosed ==
    (file.exists /\ pc \in {"inference", "report", "exited"}) => ~streamOpen

\* C3: with a valid magic word and tensor data that ends early, the load is
\* aborted: a short fread ends main() with a non-zero exit status, the
\* constructor never completes and forward is never called.
C3_TruncatedDetected ==
    TruncatedModelFile =>
        /\ ~forwardCalled
        /\ pc \notin {"close", "inference", "report"}
        /\ (\E k \in 1..Len(readLog) : readLog[k].got < readLog[k].asked) =>
              /\ pc = "exited"
              /\ exitStatus # 0
        /\ pc = "exited" => exitStatus # 0

\* the freads main() makes on a complete file of this d_model, in order
ExpectedReads(d) ==
    <<[into |-> "magic", row |-> 0, at |-> 0, asked |-> 1, got |-> 1],
      [into |-> "layers", row |-> 0, at |-> 1, asked |-> 1, got |-> 1],
      [into |-> "d_model", row |-> 0, at |-> 2, asked |-> 1, got |-> 1]>>
    \o [k \in 1..(4 * d) |->
          [into |-> TensorNames[((k - 1) \div d) + 1],
           row |-> ((k - 1) % d) + 1,
           at |-> 3 + (k - 1) * d,
           asked |-> d,
           got |-> d]]

\* C8: on a complete file with d_model >= 1 the stream is read in the order
\* magic, layers, d_model, W_q, W_k, W_v, W_out, each tensor taking d_model^2
\* consecutive floats, and once the four tensors are loaded cell [i][j] of
\* tensor t is the float at index t * d_model^2 + i * d_model + j of the tensor
\* data, which starts at word 3 (byte 12).
C8_LoadOrder ==
    CompleteModelFile =>
        LET d == file.words[3]
        IN  /\ Len(readLog) <= Len(ExpectedReads(d))
            /\ readLog = SubSeq(ExpectedReads(d), 1, Len(readLog))
            /\ loaded = Len(TensorNames) =>
                  /\ Len(readLog) = Len(ExpectedReads(d))
                  /\ \A t \in 0..3, i \in 0..(d - 1), j \in 0..(d - 1) :
                        layer1[TensorNames[t + 1]][i + 1][j + 1]
                          = FloatOfWord(
                              file.words[3 + t * d * d + i * d + j + 1])

\* C8's case: a complete file with d_model >= 2 whose four tensors are loaded
C8_Witness ==
    /\ CompleteModelFile
    /\ file.words[3] >= 2
    /\ loaded = Len(TensorNames)
    /\ pc = "close"

-----------------------------------------------------------------------------
(* Properties of the kernels *)

\* C4: matmul(A, B) with A.cols != B.rows, and attention(Q, K, V) with
\* Q.cols != K.cols or K.rows != V.rows, end in the fatal DimensionMismatch
\* outcome and return no matrix, whatever the values of the cells.
C4_DimensionMismatch ==
    /\ (call = "matmul done" /\ Cols(X) # Rows(Y)) =>
          result = DimensionMismatch
    /\ (call = "attention done" /\ (Cols(X) # Cols(Y) \/ Rows(Y) # Rows(Z))) =>
          result = DimensionMismatch

\* C4's case: attention was called with Q.cols = K.cols, so that its first
\* multiplication passes, and K.rows > V.rows
C4_Witness ==
    /\ call = "attention done"
    /\ Cols(X) = Cols(Y)
    /\ Rows(Y) > Rows(Z)
    /\ result.status = "DimensionMismatch"

\* C5 (shape): attention(Q, K, V) with Q.cols = K.cols and K.rows = V.rows
\* returns a matrix of Q.rows rows and V.cols columns, every row of that length,
\* and the scores matrix Q x transpose(K) has Q.rows rows and K.rows columns.
AttentionShape ==
    (call = "attention done" /\ Cols(X) = Cols(Y) /\ Rows(Y) = Rows(Z)) =>
        /\ result.status = "returned"
        /\ Rows(result.m) = Rows(X)
        /\ \A i \in 1..Rows(X) : Len(result.m[i]) = Cols(Z)
        /\ LET scores == matmul(X, transpose(Y))
           IN  /\ scores.status = "returned"
               /\ Shape(scores.m) = <<Rows(X), Rows(Y)>>

\* C5: the shape above, and the call of attention leaves Q, K and V as they were.
C5_Attention ==
    /\ []AttentionShape
    /\ [][call' = "attention done" => (X' = X /\ Y' = Y /\ Z' = Z)]_vars

\* C5's case: attention returned on a Q, K, V of three different shapes
C5_Witness ==
    /\ call = "attention done"
    /\ result.status = "returned"
    /\ Shape(X) = <<1, 2>>
    /\ Shape(Y) = <<2, 2>>
    /\ Shape(Z) = <<2, 1>>

\* C6 (shape): forward(input) on a block of d_model x d_model weights and an
\* input of d_model columns returns a matrix of the input's shape; none of its
\* five multiplications ends in DimensionMismatch.
ForwardShape ==
    (call = "forward done" /\ Cols(X) = Rows(block.W_q)) =>
        /\ result.status = "returned"
        /\ Rows(result.m) = Rows(X)
        /\ \A i \in 1..Rows(X) : Len(result.m[i]) = Cols(X)

\* C6: the shape above, and the call of forward leaves W_q, W_k, W_v and W_out
\* as they were.
C6_Forward ==
    /\ []ForwardShape
    /\ [][call' = "forward done" => block' = block]_vars

\* C6's case: forward returned on an input whose sequence length differs from
\* d_model
C6_Witness ==
    /\ call = "forward done"
    /\ result.status = "returned"
    /\ Rows(block.W_q) = 2
    /\ Shape(X) = <<1, 2>>

\* C7 (result): transpose(M) has cols(M) rows of rows(M) cells each, with
\* transpose(M)[j][i] = M[i][j], and the transpose of that result is M.
TransposeResult ==
    /\ call \in {"transpose done", "transpose twice"} =>
          /\ Rows(result.m) = Cols(X)
          /\ \A j \in 1..Cols(X) :
                /\ Len(result.m[j]) = Rows(X)
                /\ \A i \in 1..Rows(X) : result.m[j][i] = X[i][j]
    /\ call = "transpose twice" => Y = X

\* C7: the result above, and the call of transpose leaves M as it was.
C7_Transpose ==
    /\ []TransposeResult
    /\ [][call' \in {"transpose done", "transpose twice"} => X' = X]_vars

\* C7's case: a matrix that is not square and not symmetric was transposed twice
C7_Witness ==
    /\ call = "transpose twice"
    /\ Rows(X) # Cols(X)
    /\ X[1][1] # X[Rows(X)][Cols(X)]

-----------------------------------------------------------------------------
(* Properties of softmax *)

\* 1e-5
Tolerance == Float(0, 10)

\* |a - b| <= 1e-5
Near(a, b) == FGe(FAdd(a, Tolerance), b) /\ FGe(FAdd(b, Tolerance), a)

RECURSIVE RowSum(_, _)
RowSum(row, k) == IF k = 0 THEN Whole(0) ELSE FAdd(RowSum(row, k - 1), row[k])

\* the largest element of a row
RowMaximum(row) ==
    CHOOSE v \in {row[j] : j \in 1..Len(row)} :
        \A j \in 1..Len(row) : FGe(v, row[j])

\* C9: after softmax(M) every row of M sums to 1.0 within 1e-5 and every element
\* is in [0.0, 1.0]; a row whose elements were all the same becomes the uniform
\* row of 1/cols.
C9_SoftmaxRows ==
    [][call' = "softmax done" =>
          \A i \in 1..Rows(X) :
              LET cols == Len(X[i])
              IN  /\ Near(RowSum(X'[i], cols), Whole(1))
                  /\ \A j \in 1..cols :
                        /\ FGe(X'[i][j], Whole(0))
                        /\ FGe(Whole(1), X'[i][j])
                  /\ (\A j \in 1..cols : X[i][j] = X[i][1]) =>
                        \A j \in 1..cols :
                            Near(X'[i][j], FDiv(Whole(1), Whole(cols)))]_vars

\* C10: the max_val softmax subtracts in a row is the largest element of the
\* row: every element minus max_val is <= 0 and one of them is 0.
C10_MaxVal ==
    [][call' = "softmax done" =>
          \A i \in 1..Rows(X) :
              /\ max_vals'[i] = RowMaximum(X[i])
              /\ \A j \in 1..Len(X[i]) :
                    FGe(Whole(0), FSub(X[i][j], max_vals'[i]))
              /\ \E j \in 1..Len(X[i]) :
                    FSub(X[i][j], max_vals'[i]) = Whole(0)]_vars

====
